---- MODULE Spec2Model ----
(***************************************************************************)
(* json-schema-gen/generator.go: a go:generate tool that parses one Go     *)
(* file, locates a named struct type, turns the struct tags of its fields  *)
(* into a schema description and writes it as <type>.schema.json.          *)
(*                                                                         *)
(* Go strings are sequences of one-character strings, so that Split, Trim, *)
(* Contains and Atoi are computed character by character as the library    *)
(* computes them.                                                          *)
(***************************************************************************)
EXTENDS Integers, Sequences, FiniteSets, TLC

VARIABLES
    pc,         \* position of main (or of the function harness)
    typeName,   \* *typeName, the -type flag
    args,       \* flag.Args()
    node,       \* the parsed file: its nodes in ast.Inspect's pre-order, Nil before parsing
    idx,        \* the next node ast.Inspect visits
    schema,     \* var schema *SchemaType
    output,     \* the bytes.Buffer of generateSchemaFile, Nil before Execute
    genErr,     \* the error generateSchemaFile returns ("nil" is no error)
    out,        \* what was printed to standard output, in order
    exitCode,   \* the process exit status, Nil while running
    file,       \* the output path on disk: [state, name, data]
    structIn,   \* function harness: structType.Fields.List
    tagsOut,    \* function harness: parseFieldTags of every tagged field
    typesOut    \* function harness: getFieldType of every field

vars == <<pc, typeName, args, node, idx, schema, output, genErr, out, exitCode,
          file, structIn, tagsOut, typesOut>>

\* A Go pointer (or an optional value): Nil, or Some(x) holding x.
Nil == <<>>
Some(x) == <<x>>
IsNil(p) == p = <<>>
Deref(p) == p[1]

(***************************************************************************)
(* Bounds of the model.                                                    *)
(***************************************************************************)
MaxDecls == 2
MaxFields == 3
MaxOpts == 2

(***************************************************************************)
(* The string literals of the source.                                      *)
(***************************************************************************)
sJson == <<"j", "s", "o", "n">>
sSchema == <<"s", "c", "h", "e", "m", "a">>
sSkip == <<"-">>
sRequired == <<"r", "e", "q", "u", "i", "r", "e", "d">>
sMinLengthEq == <<"m", "i", "n", "L", "e", "n", "g", "t", "h", "=">>
sFormatEq == <<"f", "o", "r", "m", "a", "t", "=">>
sComma == <<",">>
sSpace == <<" ">>
sColon == <<":">>
sSuffix == <<".", "s", "c", "h", "e", "m", "a", ".", "j", "s", "o", "n">>
\* The backquote character, which a TLA+ string cannot hold, is the atom "BQ".
BackTick == "BQ"
Quote == "\""

(***************************************************************************)
(* package strings and strconv.                                            *)
(***************************************************************************)
HasPrefixAt(s, sub, i) ==
    /\ i + Len(sub) - 1 <= Len(s)
    /\ SubSeq(s, i, i + Len(sub) - 1) = sub

\* strings.Index, 1-based; 0 when sub does not occur.
Index(s, sub) ==
    IF \E i \in 1..Len(s) : HasPrefixAt(s, sub, i)
    THEN CHOOSE i \in 1..Len(s) :
            /\ HasPrefixAt(s, sub, i)
            /\ \A j \in 1..(i - 1) : ~HasPrefixAt(s, sub, j)
    ELSE 0

Contains(s, sub) == Index(s, sub) # 0

\* strings.SplitN(s, sep, n) for a non-empty sep; n < 0 splits at every occurrence.
RECURSIVE SplitN(_, _, _)
SplitN(s, sep, n) ==
    LET i == Index(s, sep)
    IN  IF n = 0 THEN <<>>
        ELSE IF n = 1 \/ i = 0 THEN <<s>>
        ELSE <<SubSeq(s, 1, i - 1)>>
                \o SplitN(SubSeq(s, i + Len(sep), Len(s)), sep, IF n < 0 THEN n ELSE n - 1)

Split(s, sep) == SplitN(s, sep, -1)

RECURSIVE TrimLeft(_, _)
TrimLeft(s, cutset) ==
    IF s # <<>> /\ Head(s) \in cutset THEN TrimLeft(Tail(s), cutset) ELSE s

RECURSIVE TrimRight(_, _)
TrimRight(s, cutset) ==
    IF s # <<>> /\ s[Len(s)] \in cutset
    THEN TrimRight(SubSeq(s, 1, Len(s) - 1), cutset)
    ELSE s

Trim(s, cutset) == TrimRight(TrimLeft(s, cutset), cutset)

DigitChars == <<"0", "1", "2", "3", "4", "5", "6", "7", "8", "9">>

IsDigit(c) == \E d \in DOMAIN DigitChars : DigitChars[d] = c

DigitVal(c) == (CHOOSE d \in DOMAIN DigitChars : DigitChars[d] = c) - 1

RECURSIVE Decimal(_)
Decimal(ds) ==
    IF ds = <<>> THEN 0
    ELSE 10 * Decimal(SubSeq(ds, 1, Len(ds) - 1)) + DigitVal(ds[Len(ds)])

\* strconv.Atoi: an optional sign, then one or more decimal digits. The
\* inputs of the model have at most three digits, far from the int range.
Atoi(s) ==
    LET signed == s # <<>> /\ Head(s) \in {"+", "-"}
        ds == IF signed THEN Tail(s) ELSE s
    IN  IF ds = <<>> \/ \E k \in DOMAIN ds : ~IsDigit(ds[k])
        THEN [err |-> TRUE, val |-> 0]
        ELSE [err |-> FALSE,
              val |-> IF signed /\ Head(s) = "-" THEN 0 - Decimal(ds) ELSE Decimal(ds)]

UpperChars == <<"A", "B", "C", "D", "E", "F", "G", "H", "I", "J", "K", "L", "M",
                "N", "O", "P", "Q", "R", "S", "T", "U", "V", "W", "X", "Y", "Z">>
LowerChars == <<"a", "b", "c", "d", "e", "f", "g", "h", "i", "j", "k", "l", "m",
                "n", "o", "p", "q", "r", "s", "t", "u", "v", "w", "x", "y", "z">>

ToLower(s) ==
    [k \in DOMAIN s |->
        IF \E u \in DOMAIN UpperChars : UpperChars[u] = s[k]
        THEN LowerChars[CHOOSE u \in DOMAIN UpperChars : UpperChars[u] = s[k]]
        ELSE s[k]]

(***************************************************************************)
(* map[string]string: a function on the keys present; a missing key reads  *)
(* as the empty string.                                                    *)
(***************************************************************************)
EmptyMap == [k \in {} |-> <<>>]

MapGet(m, k) == IF k \in DOMAIN m THEN m[k] ELSE <<>>

MapPut(m, k, v) == [x \in DOMAIN m \cup {k} |-> IF x = k THEN v ELSE m[x]]

(***************************************************************************)
(* parseFieldTags                                                          *)
(***************************************************************************)
RECURSIVE parseTokens(_, _)
parseTokens(toks, tags) ==
    IF toks = <<>> THEN tags
    ELSE LET parts == Split(Head(toks), sColon)
         IN  IF Len(parts) # 2
             THEN parseTokens(Tail(toks), tags)
             ELSE parseTokens(Tail(toks), MapPut(tags, parts[1], Trim(parts[2], {Quote})))

parseFieldTagsFirstWins(tag) ==
    LET toks == Split(Trim(tag, {BackTick}), sSpace)
        rev == [k \in DOMAIN toks |-> toks[Len(toks) + 1 - k]]
    IN  parseTokens(rev, EmptyMap)

parseFieldTags(tag) == parseTokens(Split(Trim(tag, {BackTick}), sSpace), EmptyMap)

(***************************************************************************)
(* getFieldType: expr is [kind, name]; name is the identifier of an        *)
(* *ast.Ident and "" for every other kind of expression.                   *)
(***************************************************************************)
getFieldTypeNoInt32(expr) ==
    IF expr.kind = "Ident"
    THEN CASE expr.name = "string" -> "string"
           [] expr.name \in {"int", "int64"} -> "integer"
           [] expr.name \in {"float32", "float64"} -> "number"
           [] expr.name = "bool" -> "boolean"
           [] OTHER -> "string"
    ELSE "string"

getFieldType(expr) ==
    IF expr.kind = "Ident"
    THEN CASE expr.name = "string" -> "string"
           [] expr.name \in {"int", "int32", "int64"} -> "integer"
           [] expr.name \in {"float32", "float64"} -> "number"
           [] expr.name = "bool" -> "boolean"
           [] OTHER -> "string"
    ELSE "string"

(***************************************************************************)
(* parseStruct. MinLength is a *int: NilInt is nil.                         *)
(***************************************************************************)
NilInt == [set |-> FALSE, val |-> 0]

minLengthOf(schemaTag) ==
    IF Contains(schemaTag, sMinLengthEq)
    THEN LET minLengthStr == SplitN(SplitN(schemaTag, sMinLengthEq, 2)[2], sComma, 2)[1]
             r == Atoi(minLengthStr)
         IN  IF ~r.err THEN [set |-> TRUE, val |-> r.val] ELSE NilInt
    ELSE NilInt

formatOf(schemaTag) ==
    IF Contains(schemaTag, sFormatEq)
    THEN Split(Split(schemaTag, sFormatEq)[2], sComma)[1]
    ELSE <<>>

schemaFieldOf(field, tags) ==
    [Name |-> MapGet(tags, sJson),
     Type |-> getFieldType(field.Type),
     Required |-> Contains(MapGet(tags, sSchema), sRequired),
     MinLength |-> minLengthOf(MapGet(tags, sSchema)),
     Format |-> formatOf(MapGet(tags, sSchema)),
     Description |-> <<>>]

RECURSIVE parseFields(_, _)
parseFields(list, acc) ==
    IF list = <<>> THEN acc
    ELSE LET field == Head(list)
         IN  IF IsNil(field.Tag)
             THEN parseFields(Tail(list), acc)
             ELSE LET tags == parseFieldTags(Deref(field.Tag))
                  IN  IF MapGet(tags, sJson) = sSkip
                      THEN parseFields(Tail(list), acc)
                      ELSE parseFields(Tail(list), Append(acc, schemaFieldOf(field, tags)))

parseStructKeepsTagless(name, list) ==
    [TypeName |-> name,
     Fields |-> parseFields([k \in DOMAIN list |->
                                IF IsNil(list[k].Tag)
                                THEN [list[k] EXCEPT !.Tag = Some(<<>>)]
                                ELSE list[k]], <<>>)]

parseStruct(name, list) == [TypeName |-> name, Fields |-> parseFields(list, <<>>)]

(***************************************************************************)
(* schemaTemplate.Execute: the members each {{if}} of the template emits,  *)
(* in the template's order. A pointer is true when it is not nil, a string *)
(* when it is not empty.                                                   *)
(***************************************************************************)
renderField(f) ==
    [name |-> f.Name,
     members |->
        <<[key |-> "type", val |-> f.Type]>>
        \o (IF f.Required THEN <<[key |-> "required", val |-> TRUE]>> ELSE <<>>)
        \o (IF f.MinLength.set
            THEN <<[key |-> "minLength", val |-> f.MinLength.val]>> ELSE <<>>)
        \o (IF f.Format # <<>> THEN <<[key |-> "format", val |-> f.Format]>> ELSE <<>>)
        \o (IF f.Description # <<>>
            THEN <<[key |-> "description", val |-> f.Description]>> ELSE <<>>)]

Execute(s) ==
    [title |-> s.TypeName,
     properties |-> [k \in DOMAIN s.Fields |-> renderField(s.Fields[k])]]

(***************************************************************************)
(* The parsed file. ast.Inspect visits the nodes of the tree in pre-order; *)
(* node is that pre-order list. Each entry has the node's kind ("TypeSpec" *)
(* or "FuncDecl"), and for a TypeSpec its Name.Name, the kind of its Type  *)
(* and, for a StructType, its Fields.List. sub is the number of entries    *)
(* that follow it and lie inside it (type declarations in a function body, *)
(* or in a function literal inside a type expression).                     *)
(***************************************************************************)
nUser == <<"U", "s", "e", "r">>
nOrder == <<"O", "r", "d", "e", "r">>
inputFile == <<"u", "s", "e", "r", ".", "g", "o">>

KV(k, v) == k \o <<":", Quote>> \o v \o <<Quote>>
Raw(content) == <<BackTick>> \o content \o <<BackTick>>
Ident(n) == [kind |-> "Ident", name |-> n]

vId == <<"i", "d">>
vName == <<"n", "a", "m", "e">>
vEmail == <<"e", "m", "a", "i", "l">>
oMin1 == <<"m", "i", "n", "=", "1">>
oMinLength2 == sMinLengthEq \o <<"2">>
oFormatEmail == sFormatEq \o vEmail

\* The fields of src/json-schema-gen/user.go.
fID == [Tag |-> Some(Raw(KV(sJson, vId) \o sSpace \o KV(sSchema, sRequired \o sComma \o oMin1))),
        Type |-> Ident("int")]
fName == [Tag |-> Some(Raw(KV(sJson, vName) \o sSpace
                            \o KV(sSchema, sRequired \o sComma \o oMinLength2))),
          Type |-> Ident("string")]
fEmail == [Tag |-> Some(Raw(KV(sJson, vEmail) \o sSpace
                             \o KV(sSchema, sRequired \o sComma \o oFormatEmail))),
           Type |-> Ident("string")]
fIgnoreInJson == [Tag |-> Some(Raw(KV(sJson, sSkip))), Type |-> Ident("string")]
fNoJSONTag == [Tag |-> Nil, Type |-> Ident("string")]

FileFieldLists == {<<>>, <<fID, fName>>, <<fEmail, fIgnoreInJson, fNoJSONTag>>}

FileNodes ==
    [kind : {"FuncDecl"}, name : {<<>>}, typ : {""}, fields : {<<>>}, sub : {0, 1}]
    \cup [kind : {"TypeSpec"}, name : {nUser, nOrder}, typ : {"StructType"},
          fields : FileFieldLists, sub : {0, 1}]
    \cup [kind : {"TypeSpec"}, name : {nUser, nOrder}, typ : {"InterfaceType"},
          fields : {<<>>}, sub : {0}]

\* sub describes a tree: a node's descendants lie inside the list and inside
\* its ancestors.
IsTree(f) ==
    \A i \in DOMAIN f :
        /\ i + f[i].sub <= Len(f)
        /\ \A j \in (i + 1)..(i + f[i].sub) : j + f[j].sub <= i + f[i].sub

Files ==
    {f \in UNION {[1..n -> FileNodes] : n \in 0..MaxDecls} : IsTree(f)}

Msg(text, t, f, e) == [text |-> text, type |-> t, file |-> f, err |-> e]

NoFile == [state |-> "absent", name |-> <<>>, data |-> Nil]
OldFile == [state |-> "old", name |-> <<>>, data |-> Nil]

Init ==
    /\ pc = "flags"
    /\ typeName \in {<<>>, nUser, nOrder}
    /\ args \in {<<>>, <<inputFile>>}
    /\ node = Nil
    /\ idx = 0
    /\ schema = Nil
    /\ output = Nil
    /\ genErr = "nil"
    /\ out = <<>>
    /\ exitCode = Nil
    /\ file \in {NoFile, OldFile}
    /\ structIn = <<>>
    /\ tagsOut = <<>>
    /\ typesOut = <<>>

fnVars == <<structIn, tagsOut, typesOut>>

\* os.Exit(code) after fmt.Println / fmt.Printf of m.
PrintAndExit(m, code) ==
    /\ out' = Append(out, m)
    /\ exitCode' = Some(code)
    /\ pc' = "exit"

\* main, lines 63-66
CheckTypeFlag ==
    /\ pc = "flags"
    /\ IF typeName = <<>>
       THEN PrintAndExit(Msg("Please specify type name using -type flag", <<>>, <<>>, ""), 1)
       ELSE /\ pc' = "args"
            /\ UNCHANGED <<out, exitCode>>
    /\ UNCHANGED <<typeName, args, node, idx, schema, output, genErr, file, fnVars>>

\* main, lines 69-73
CheckArgs ==
    /\ pc = "args"
    /\ IF Len(args) < 1
       THEN PrintAndExit(Msg("Please specify an input file", <<>>, <<>>, ""), 1)
       ELSE /\ pc' = "parse"
            /\ UNCHANGED <<out, exitCode>>
    /\ UNCHANGED <<typeName, args, node, idx, schema, output, genErr, file, fnVars>>

\* main, lines 76-81: parser.ParseFile fails, or yields one of the files.
ParseFileError ==
    /\ pc = "parse"
    /\ PrintAndExit(Msg("Error parsing file: %v", <<>>, args[1], "syntax error"), 1)
    /\ UNCHANGED <<typeName, args, node, idx, schema, output, genErr, file, fnVars>>

ParseFileOk ==
    /\ pc = "parse"
    /\ \E f \in Files : node' = Some(f)
    /\ idx' = 1
    /\ pc' = "inspect"
    /\ UNCHANGED <<typeName, args, schema, output, genErr, out, exitCode, file, fnVars>>

\* The callback of ast.Inspect, lines 85-105: TRUE to descend into n.
IsTargetStructAnyType(n) ==
    /\ n.kind = "TypeSpec"
    /\ n.name = typeName

IsTargetStruct(n) ==
    /\ n.kind = "TypeSpec"
    /\ n.name = typeName
    /\ n.typ = "StructType"

\* One call of the callback. When it returns false ast.Inspect skips the
\* node's children and goes on with what follows the node.
InspectNode ==
    /\ pc = "inspect"
    /\ idx <= Len(Deref(node))
    /\ LET n == Deref(node)[idx]
       IN  IF IsTargetStruct(n)
           THEN /\ schema' = Some(parseStruct(n.name, n.fields))
                /\ idx' = idx + 1 + n.sub
           ELSE /\ idx' = idx + 1
                /\ UNCHANGED schema
    /\ UNCHANGED <<pc, typeName, args, node, output, genErr, out, exitCode, file, fnVars>>

\* main, lines 107-110, once ast.Inspect has returned.
CheckFound ==
    /\ pc = "inspect"
    /\ idx > Len(Deref(node))
    /\ IF IsNil(schema)
       THEN PrintAndExit(Msg("Type %s not found in %s", typeName, args[1], ""), 1)
       ELSE /\ pc' = "execute"
            /\ UNCHANGED <<out, exitCode>>
    /\ UNCHANGED <<typeName, args, node, idx, schema, output, genErr, file, fnVars>>

outputFile == ToLower(Deref(schema).TypeName) \o sSuffix

\* generateSchemaFile, lines 194-199. Execute's error is the library's to
\* return: both outcomes are taken.
GenExecuteError ==
    /\ pc = "execute"
    /\ genErr' = "template execution failed"
    /\ pc' = "return"
    /\ UNCHANGED <<typeName, args, node, idx, schema, output, out, exitCode, file, fnVars>>

GenExecuteOk ==
    /\ pc = "execute"
    /\ output' = Some(Execute(Deref(schema)))
    /\ pc' = "println"
    /\ UNCHANGED <<typeName, args, node, idx, schema, genErr, out, exitCode, file, fnVars>>

\* generateSchemaFile, line 201
GenPrintln ==
    /\ pc = "println"
    /\ out' = Append(out, Msg("Schema file generated successfully", <<>>, outputFile, ""))
    /\ pc' = "write"
    /\ UNCHANGED <<typeName, args, node, idx, schema, output, genErr, exitCode, file, fnVars>>

\* generateSchemaFile, line 202: os.WriteFile succeeds, fails before it
\* creates or truncates the file, or fails after.
GenWriteFile ==
    /\ pc = "write"
    /\ \/ /\ file' = [state |-> "written", name |-> outputFile, data |-> output]
          /\ genErr' = "nil"
       \/ /\ file' = file
          /\ genErr' = "open failed"
       \/ /\ file' = [state |-> "partial", name |-> outputFile, data |-> Nil]
          /\ genErr' = "write failed"
    /\ pc' = "return"
    /\ UNCHANGED <<typeName, args, node, idx, schema, output, out, exitCode, fnVars>>

\* main, lines 113-117
MainReturn ==
    /\ pc = "return"
    /\ IF genErr # "nil"
       THEN PrintAndExit(Msg("Error generating schema: %v", <<>>, <<>>, genErr), 1)
       ELSE /\ exitCode' = Some(0)
            /\ pc' = "exit"
            /\ UNCHANGED out
    /\ UNCHANGED <<typeName, args, node, idx, schema, output, genErr, file, fnVars>>

Next ==
    \/ CheckTypeFlag
    \/ CheckArgs
    \/ ParseFileError
    \/ ParseFileOk
    \/ InspectNode
    \/ CheckFound
    \/ GenExecuteError
    \/ GenExecuteOk
    \/ GenPrintln
    \/ GenWriteFile
    \/ MainReturn

Spec == Init /\ [][Next]_vars

(***************************************************************************)
(* The functions on their own: parseFieldTags, getFieldType, parseStruct   *)
(* and schemaTemplate.Execute applied to a field list drawn from bounded   *)
(* sets of struct tags and declared types.                                 *)
(***************************************************************************)
sTab == <<"\t">>
BackSlash == "\\"
vNameOmit == vName \o sComma \o <<"o", "m", "i", "t", "e", "m", "p", "t", "y">>
oMinLength0 == sMinLengthEq \o <<"0">>
oMinLengthNeg == sMinLengthEq \o <<"-", "3">>
oMinLengthAbc == sMinLengthEq \o <<"a", "b", "c">>
oFormatTwice == sFormatEq \o sFormatEq \o vEmail
oFormatColon == sFormatEq \o <<"d", "a", "t", "e", ":", "t", "i", "m", "e">>

OptPool ==
    {sRequired, oMin1, oMinLength2, oMinLength0, oMinLengthNeg, oMinLengthAbc,
     oFormatEmail, oFormatTwice}

RECURSIVE Join(_, _)
Join(list, sep) ==
    IF list = <<>> THEN <<>>
    ELSE IF Len(list) = 1 THEN list[1]
    ELSE list[1] \o sep \o Join(Tail(list), sep)

\* The values of a schema key: up to MaxOpts options, comma-separated.
OptLists == {Join(l, sComma) : l \in UNION {[1..n -> OptPool] : n \in 0..MaxOpts}}

JsonVals == {vId, sSkip, vNameOmit}

\* A string literal's text for the tag content c: a raw literal between
\* backquotes, or an interpreted one between double quotes with \" escapes.
RECURSIVE Escaped(_)
Escaped(c) ==
    IF c = <<>> THEN <<>>
    ELSE (IF Head(c) = Quote THEN <<BackSlash, Quote>> ELSE <<Head(c)>>) \o Escaped(Tail(c))

Interpreted(c) == <<Quote>> \o Escaped(c) \o <<Quote>>

TagContents ==
    {KV(sJson, j) : j \in JsonVals}
    \cup {KV(sSchema, o) : o \in OptLists}
    \cup {KV(sJson, j) \o sSpace \o KV(sSchema, o) : j \in JsonVals, o \in OptLists}
    \cup {KV(sJson, sSkip) \o sep \o KV(sSchema, o) : sep \in {sTab, <<>>}, o \in OptLists}
    \cup {KV(sSchema, o) \o sSpace \o KV(sJson, vId) : o \in OptLists}
    \cup {KV(sJson, vId) \o sSpace \o KV(sSchema, oMinLength2 \o sComma \o sSpace \o sRequired),
          KV(sJson, vId) \o sSpace \o KV(sSchema, sRequired \o sComma \o sSpace \o oMinLength2),
          KV(sJson, vId) \o sSpace \o KV(sSchema, sRequired \o sComma \o oFormatColon),
          KV(sJson, vId) \o sSpace \o sSpace \o KV(sSchema, sRequired),
          KV(sJson, sSkip) \o sSpace \o KV(sJson, vId),
          KV(sJson, vId) \o sSpace \o KV(sJson, sSkip),
          KV(sSchema, oMin1) \o sSpace \o KV(sJson, vId) \o sSpace \o KV(sSchema, sRequired)}

TagLiterals ==
    {Raw(c) : c \in TagContents}
    \cup {Interpreted(KV(sJson, sSkip)),
          Interpreted(KV(sJson, vId) \o sSpace \o KV(sSchema, sRequired))}

TypeExprs ==
    {Ident(n) : n \in {"string", "int", "int8", "int32", "int64", "uint", "float32",
                       "float64", "bool", "Address"}}
    \cup [kind : {"ArrayType", "StarExpr", "MapType", "SelectorExpr", "StructType"},
          name : {"int", "bool"}]

\* One field: every tag on a string field, and every declared type with the
\* tags of user.go or none.
SingleFields ==
    [Tag : {Some(t) : t \in TagLiterals}, Type : {Ident("string")}]
    \cup [Tag : {Nil, fID.Tag, fIgnoreInJson.Tag}, Type : TypeExprs]

fNoSeparator ==
    [Tag |-> Some(Raw(KV(sJson, sSkip) \o KV(sSchema, sRequired))), Type |-> Ident("string")]
fSkipThenId ==
    [Tag |-> Some(Raw(KV(sJson, sSkip) \o sSpace \o KV(sJson, vId))), Type |-> Ident("int")]

ListFields == {fID, fName, fIgnoreInJson, fNoJSONTag, fNoSeparator, fSkipThenId}

StructInputs ==
    {<<f>> : f \in SingleFields}
    \cup UNION {[1..n -> ListFields] : n \in 0..MaxFields}

InitFn ==
    /\ pc = "fn_tags"
    /\ structIn \in StructInputs
    /\ typeName = nUser
    /\ args = <<inputFile>>
    /\ node = Nil
    /\ idx = 0
    /\ schema = Nil
    /\ output = Nil
    /\ genErr = "nil"
    /\ out = <<>>
    /\ exitCode = Nil
    /\ file = NoFile
    /\ tagsOut = <<>>
    /\ typesOut = <<>>

mainVars == <<typeName, args, node, idx, genErr, out, exitCode, file>>

\* parseStruct, line 131, for every field that has a tag.
FnParseFieldTags ==
    /\ pc = "fn_tags"
    /\ tagsOut' = [k \in DOMAIN structIn |->
                     IF IsNil(structIn[k].Tag) THEN Nil
                     ELSE Some(parseFieldTags(Deref(structIn[k].Tag)))]
    /\ pc' = "fn_types"
    /\ UNCHANGED <<mainVars, structIn, typesOut, schema, output>>

\* parseStruct, line 138, for every field.
FnGetFieldType ==
    /\ pc = "fn_types"
    /\ typesOut' = [k \in DOMAIN structIn |-> getFieldType(structIn[k].Type)]
    /\ pc' = "fn_struct"
    /\ UNCHANGED <<mainVars, structIn, tagsOut, schema, output>>

FnParseStruct ==
    /\ pc = "fn_struct"
    /\ schema' = Some(parseStruct(typeName, structIn))
    /\ pc' = "fn_execute"
    /\ UNCHANGED <<mainVars, structIn, tagsOut, typesOut, output>>

FnExecute ==
    /\ pc = "fn_execute"
    /\ output' = Some(Execute(Deref(schema)))
    /\ pc' = "fn_done"
    /\ UNCHANGED <<mainVars, structIn, tagsOut, typesOut, schema>>

NextFn ==
    \/ FnParseFieldTags
    \/ FnGetFieldType
    \/ FnParseStruct
    \/ FnExecute

SpecFn == InitFn /\ [][NextFn]_vars

(***************************************************************************)
(* What the claims speak of, stated on the text of the tag by positions    *)
(* and not through Split, Trim or the functions above.                     *)
(***************************************************************************)
OccursAt(s, sub, i) ==
    /\ i >= 1
    /\ i + Len(sub) - 1 <= Len(s)
    /\ \A k \in 1..Len(sub) : s[i + k - 1] = sub[k]

Occurs(s, sub) == \E i \in 1..Len(s) : OccursAt(s, sub, i)

FirstAt(s, sub) == CHOOSE i \in 1..Len(s) :
                        OccursAt(s, sub, i) /\ \A j \in 1..(i - 1) : ~OccursAt(s, sub, j)

\* s without its leading and trailing characters of set.
Stripped(s, set) ==
    LET keep == {k \in DOMAIN s : s[k] \notin set}
    IN  IF keep = {} THEN <<>>
        ELSE LET lo == CHOOSE k \in keep : \A m \in keep : k <= m
                 hi == CHOOSE k \in keep : \A m \in keep : m <= k
             IN  [k \in 1..(hi - lo + 1) |-> s[lo + k - 1]]

\* s from position a up to the next character of set, or to the end.
UpTo(s, a, set) ==
    LET stops == {k \in a..Len(s) : s[k] \in set}
        b == IF stops = {} THEN Len(s) ELSE (CHOOSE k \in stops : \A m \in stops : k <= m) - 1
    IN  [k \in 1..(b - a + 1) |-> s[a + k - 1]]

\* The tokens of s when the characters of seps separate tokens: the maximal
\* runs <<a, b>> free of seps; the well-formed ones hold exactly one colon.
TokensOf(s, seps) ==
    LET starts == {a \in 1..(Len(s) + 1) : a = 1 \/ s[a - 1] \in seps}
        end(a) == IF \E k \in a..Len(s) : s[k] \in seps
                  THEN (CHOOSE k \in a..Len(s) :
                            s[k] \in seps /\ \A m \in a..(k - 1) : s[m] \notin seps) - 1
                  ELSE Len(s)
    IN  {<<a, end(a)>> : a \in starts}

ColonsOf(s, t) == {k \in t[1]..t[2] : s[k] = ":"}

WellFormed(s, seps) == {t \in TokensOf(s, seps) : Cardinality(ColonsOf(s, t)) = 1}

ColonOf(s, t) == CHOOSE k \in ColonsOf(s, t) : TRUE

KeyOf(s, t) == [k \in 1..(ColonOf(s, t) - t[1]) |-> s[t[1] + k - 1]]

ValueOf(s, t) ==
    Stripped([k \in 1..(t[2] - ColonOf(s, t)) |-> s[ColonOf(s, t) + k]], {Quote})

\* The mapping a tag stands for: every well-formed token's key, with the
\* value of the last well-formed token that has the key.
TagMap(s, seps) ==
    LET wf == WellFormed(s, seps)
        last(key) == CHOOSE t \in wf :
                        /\ KeyOf(s, t) = key
                        /\ \A u \in wf : KeyOf(s, u) = key => u[1] <= t[1]
    IN  [key \in {KeyOf(s, t) : t \in wf} |-> ValueOf(s, last(key))]

Tagged == {k \in DOMAIN structIn : ~IsNil(structIn[k].Tag)}

TagText(k) == Deref(structIn[k].Tag)

ParsedTag(k, key) == MapGet(Deref(tagsOut[k]), key)

\* The field declarations that have a tag and whose parsed json value is not "-".
Included == {k \in Tagged : ParsedTag(k, sJson) # sSkip}

Rank(k) == Cardinality({j \in Included : j <= k})

Parsed == pc \in {"fn_execute", "fn_done"}

EntryOf(k) == Deref(schema).Fields[Rank(k)]

HasMember(prop, key) == \E m \in DOMAIN prop.members : prop.members[m].key = key

Rendered(k) == Deref(output).properties[Rank(k)]

\* C1: parseStruct yields exactly one entry for every field declaration that
\* has a tag and whose parsed json value is not "-", in declaration order, and
\* the rendered properties are those entries in the same order.
C1_FieldsAreIncludedInOrder ==
    Parsed =>
        /\ Len(Deref(schema).Fields) = Cardinality(Included)
        /\ \A k \in Included :
            /\ EntryOf(k).Name = ParsedTag(k, sJson)
            /\ EntryOf(k).Type = typesOut[k]
        /\ pc = "fn_done" =>
            /\ Len(Deref(output).properties) = Cardinality(Included)
            /\ \A k \in Included : Rendered(k).name = ParsedTag(k, sJson)

C1_Witness ==
    /\ pc = "fn_done"
    /\ Len(structIn) = 3
    /\ Cardinality(Included) = 2
    /\ IsNil(structIn[2].Tag)
    /\ Deref(schema).Fields[1].Name = vName
    /\ Deref(schema).Fields[2].Name = vId

\* The string a tag literal denotes: the text between the backquotes of a raw
\* literal, or between the quotes of an interpreted one with \" read as ".
TagString(lit) ==
    IF lit # <<>> /\ lit[1] = BackTick THEN Stripped(lit, {BackTick})
    ELSE LET body == [k \in 1..(Len(lit) - 2) |-> lit[k + 1]]
             kept == {k \in DOMAIN body :
                        ~(body[k] = BackSlash /\ k < Len(body) /\ body[k + 1] = Quote)}
             nth(n) == CHOOSE k \in kept : Cardinality({m \in kept : m <= k}) = n
         IN  [n \in 1..Cardinality(kept) |-> body[nth(n)]]

\* The tag has the key json with the value "-".
HasJsonSkip(k) ==
    LET c == TagString(TagText(k))
    IN  \E i \in 1..Len(c) :
            /\ OccursAt(c, KV(sJson, sSkip), i)
            /\ i = 1 \/ c[i - 1] = " "

\* C2: a field whose tag contains json:"-" never produces an entry in Fields,
\* whatever else the tag holds: the entries are at most the tagged fields
\* without json:"-".
C2_JsonSkipNeverAppears ==
    Parsed => Len(Deref(schema).Fields) <= Cardinality({k \in Tagged : ~HasJsonSkip(k)})

\* C5: for every included field, MinLength is set (and rendered) if and only
\* if the schema value contains minLength= and the text after its first
\* occurrence up to the next comma is a non-negative integer N, and then it is N.
MinLengthText(v) == UpTo(v, FirstAt(v, sMinLengthEq) + Len(sMinLengthEq), {","})

IsNonNegative(t) == t # <<>> /\ \A k \in DOMAIN t : \E d \in DOMAIN DigitChars : t[k] = DigitChars[d]

C5_MinLengthIffNonNegative ==
    Parsed =>
        \A k \in Included :
            LET v == ParsedTag(k, sSchema)
                wanted == Occurs(v, sMinLengthEq) /\ IsNonNegative(MinLengthText(v))
            IN  /\ EntryOf(k).MinLength.set <=> wanted
                /\ wanted => EntryOf(k).MinLength.val = Decimal(MinLengthText(v))
                /\ pc = "fn_done" => (HasMember(Rendered(k), "minLength") <=> wanted)

\* C6: for every included field, Format is the text after the first format=
\* of the schema value up to the next comma or the end, and empty (with no
\* format member rendered) when format= is absent.
C6_FormatIsTextUpToComma ==
    Parsed =>
        \A k \in Included :
            LET v == ParsedTag(k, sSchema)
                wanted == IF Occurs(v, sFormatEq)
                          THEN UpTo(v, FirstAt(v, sFormatEq) + Len(sFormatEq), {","})
                          ELSE <<>>
            IN  /\ EntryOf(k).Format = wanted
                /\ pc = "fn_done" /\ ~Occurs(v, sFormatEq) => ~HasMember(Rendered(k), "format")

\* The value of the key as the tag writes it: what stands between the quotes
\* that follow key: where the key starts the tag or follows a space.
WrittenValue(c, key) ==
    LET open == key \o <<":", Quote>>
        at == {i \in 1..Len(c) : OccursAt(c, open, i) /\ (i = 1 \/ c[i - 1] = " ")}
    IN  IF at = {} THEN <<>>
        ELSE UpTo(c, (CHOOSE i \in at : \A j \in at : i <= j) + Len(open), {Quote})

\* C7: for every included field, Required holds (and "required": true is
\* rendered) if and only if required occurs in the schema value as the tag
\* writes it.
C7_RequiredIffWritten ==
    Parsed =>
        \A k \in Included :
            LET wanted == Occurs(WrittenValue(TagString(TagText(k)), sSchema), sRequired)
            IN  /\ EntryOf(k).Required <=> wanted
                /\ pc = "fn_done" => (HasMember(Rendered(k), "required") <=> wanted)

\* C8: getFieldType maps string to string, int, int32 and int64 to integer,
\* float32 and float64 to number, bool to boolean, and every other
\* identifier and every non-identifier type to string.
DeclaredTypeTable(e) ==
    IF e.kind # "Ident" THEN "string"
    ELSE IF e.name \in {"int", "int32", "int64"} THEN "integer"
    ELSE IF e.name \in {"float32", "float64"} THEN "number"
    ELSE IF e.name = "bool" THEN "boolean"
    ELSE "string"

C8_GetFieldTypeTable ==
    pc \in {"fn_struct", "fn_execute", "fn_done"} =>
        \A k \in DOMAIN structIn :
            /\ typesOut[k] = DeclaredTypeTable(structIn[k].Type)
            /\ typesOut[k] \in {"string", "integer", "number", "boolean"}

C8_Witness ==
    /\ pc = "fn_done"
    /\ Len(structIn) = 1
    /\ structIn[1].Type = [kind |-> "ArrayType", name |-> "int"]
    /\ structIn[1].Tag = fID.Tag
    /\ typesOut[1] = "string"
    /\ Deref(schema).Fields[1].Type = "string"

TargetStructs ==
    IF IsNil(node) THEN {}
    ELSE {i \in DOMAIN Deref(node) :
            /\ Deref(node)[i].kind = "TypeSpec"
            /\ Deref(node)[i].name = typeName
            /\ Deref(node)[i].typ = "StructType"}

Inspected == pc \in {"execute", "println", "write", "return"} \/ (pc = "exit" /\ ~IsNil(node))

\* C3: when the target name is declared as a struct more than once, the
\* schema is the one of the first such declaration in traversal order.
C3_FirstDeclarationWins ==
    Inspected /\ TargetStructs # {} =>
        LET first == CHOOSE i \in TargetStructs : \A j \in TargetStructs : i <= j
        IN  /\ ~IsNil(schema)
            /\ Deref(schema) = parseStruct(typeName, Deref(node)[first].fields)

NotFoundMsg == Msg("Type %s not found in %s", typeName, inputFile, "")

\* C4: when the parsed file holds no struct type declaration with the target
\* name, the run prints the not-found diagnostic, exits with status 1, and
\* never executes the template or touches the output file.
C4_NotFoundWritesNothing ==
    ~IsNil(node) /\ TargetStructs = {} =>
        /\ pc \in {"inspect", "exit"}
        /\ IsNil(schema)
        /\ IsNil(output)
        /\ file.state \in {"absent", "old"}
        /\ pc = "exit" => exitCode = Some(1) /\ out = <<NotFoundMsg>>

C4_Witness ==
    /\ pc = "exit"
    /\ ~IsNil(node)
    /\ TargetStructs = {}
    /\ \E i \in DOMAIN Deref(node) :
        /\ Deref(node)[i].name = typeName
        /\ Deref(node)[i].typ = "InterfaceType"
    /\ out = <<NotFoundMsg>>

Confirmed == \E m \in DOMAIN out : out[m].text = "Schema file generated successfully"

\* C10: the confirmation message is printed if and only if the run succeeds:
\* the rendered schema is in the output file and the exit status is 0.
C10_ConfirmationIffSuccess ==
    pc = "exit" =>
        (Confirmed <=> /\ exitCode = Some(0)
                       /\ file.state = "written"
                       /\ file.data = output)

====
